---- MODULE Spec2Model ----
(***************************************************************************)
(* take-turns: a rotating assignment schedule (src/main.py).               *)
(*                                                                         *)
(* The process keeps two module globals, USERS and DATES, and a data file  *)
(* holding the last saved snapshot.  Every request handler first loads the *)
(* globals from the file when USERS is empty, then runs one operation.     *)
(*                                                                         *)
(* A calendar date is modelled by its day number: DateMin is date.min,     *)
(* DateMax is date.max, and the weekday of day d is d % 7 (day 0 is a      *)
(* Monday, as 0001-01-01 is).  Adding days to a date outside               *)
(* DateMin..DateMax raises OverflowError, as datetime.date does.           *)
(***************************************************************************)
EXTENDS Integers, Sequences, FiniteSets, TLC

VARIABLES USERS, DATES, file, today, last, delays

vars == <<USERS, DATES, file, today, last, delays>>

-----------------------------------------------------------------------------
(* Configuration, src/main.py:29-31 (the defaults).                        *)

ASSIGNMENT_WEEKDAY_START == 0
ASSIGNMENT_INTERVAL_DAYS == 7
ALLOW_ASSIGNMENT_TO_START_TODAY == FALSE

-----------------------------------------------------------------------------
(* Bounds of the model.                                                    *)

\* usernames the requests draw from
Names == {"a", "b", "c"}
\* the longest USERS list a request may still extend: one entry per username
MaxUsers == Cardinality(Names)
\* the clock starts on FirstDay and stops at MaxToday
FirstDay == 6
MaxToday == 8
\* room between the last day of the clock and date.max
Headroom == 2
\* day numbers of date.min and date.max (scaled down)
DateMin == 0
DateMax == MaxToday + ASSIGNMENT_INTERVAL_DAYS * MaxUsers + Headroom
\* the number of delay requests that may still change the dates
MaxDelays == 1
\* the values of the 'days' parameter of delay
DelayDays == {-8, 0, 3, 7, 14}
\* the days a lookup period may begin or end on
PeriodDays == {FirstDay + 1, FirstDay + ASSIGNMENT_INTERVAL_DAYS + 2}

-----------------------------------------------------------------------------
(* Python values and helpers.                                              *)

Min(a, b) == IF a <= b THEN a ELSE b

\* list[lo:hi] with 0-based, half-open Python bounds already clipped by the caller
Slice(s, lo, hi) == SubSeq(s, lo + 1, hi)

PyStr(x) == [type |-> "str", val |-> x]
PyDate(d) == [type |-> "date", val |-> d]
\* None: a request parameter that was not given
PyNone == [type |-> "NoneType"]

\* a <= b raises TypeError when one operand is a str and the other a date
py_le_raises(a, b) == a.type # b.type
py_le(a, b) == a.val <= b.val

\* date + timedelta(days) is defined only inside date.min .. date.max
date_ok(d) == d >= DateMin /\ d <= DateMax

weekday(d) == d % 7

\* date.isoformat() and date.fromisoformat(): a date and the text that names it
isoformat(d) == PyStr(d)
fromisoformat(s) == s.val

RECURSIVE serialize_dates(_)
serialize_dates(dates_list) ==
    IF dates_list = <<>> THEN <<>>
    ELSE <<isoformat(Head(dates_list))>> \o serialize_dates(Tail(dates_list))

RECURSIVE deserialize_dates(_)
deserialize_dates(dates_list) ==
    IF dates_list = <<>> THEN <<>>
    ELSE <<fromisoformat(Head(dates_list))>> \o deserialize_dates(Tail(dates_list))

\* dict(zip(users, s_dates)): zip stops at the shorter list; a repeated key keeps
\* the position of its first occurrence and the value of its last one.  The dict
\* is the sequence of its <<key, value>> items in insertion order.
RECURSIVE dict_items(_, _, _, _)
dict_items(users, vals, n, i) ==
    IF i > n THEN <<>>
    ELSE IF \E j \in 1..(i - 1) : users[j] = users[i]
         THEN dict_items(users, vals, n, i + 1)
         ELSE LET lastI == CHOOSE k \in i..n :
                               /\ users[k] = users[i]
                               /\ \A m \in (k + 1)..n : users[m] # users[i]
              IN  <<<<users[i], vals[lastI]>>>> \o dict_items(users, vals, n, i + 1)

dict_zip(users, vals) == dict_items(users, vals, Min(Len(users), Len(vals)), 1)

RECURSIVE dict_keys(_)
dict_keys(d) == IF d = <<>> THEN <<>> ELSE <<Head(d)[1]>> \o dict_keys(Tail(d))

RECURSIVE dict_values(_)
dict_values(d) == IF d = <<>> THEN <<>> ELSE <<Head(d)[2]>> \o dict_values(Tail(d))
dict_has(d, k) == \E i \in DOMAIN d : d[i][1] = k
dict_get(d, k) == d[CHOOSE i \in DOMAIN d : d[i][1] = k][2]

\* data_to_dict(users, dates, wide=False)
data_to_dict(users, dates) == dict_zip(users, serialize_dates(dates))

\* the data file: absent, or the JSON object written by save_data
NoFile == [exists |-> FALSE, assignments |-> <<>>]
save_data(users, dates) == [exists |-> TRUE, assignments |-> data_to_dict(users, dates)]

deserialize_data(f) == <<dict_keys(f.assignments), deserialize_dates(dict_values(f.assignments))>>

read_data(f) == IF f.exists THEN deserialize_data(f) ELSE <<<<>>, <<>>>>

\* "if not USERS: USERS, DATES = read_data()", the first statement of every handler
Loaded == IF USERS = <<>> THEN read_data(file) ELSE <<USERS, DATES>>

-----------------------------------------------------------------------------
(* The engine.  Each operation yields a record: exc, the exception it      *)
(* raised ("" when it returned), the globals as it leaves them, and        *)
(* whether it reached save_data.                                           *)

Done(exc, u, d, saved) == [exc |-> exc, users |-> u, dates |-> d, saved |-> saved]

\* the first date counted back from today instead of forward
get_first_assignment_date_back(t) ==
    LET diff0 == (ASSIGNMENT_WEEKDAY_START - weekday(t)) % ASSIGNMENT_INTERVAL_DAYS
        diff_days == IF diff0 = 0 /\ ~ALLOW_ASSIGNMENT_TO_START_TODAY
                     THEN ASSIGNMENT_INTERVAL_DAYS ELSE diff0
    IN  t - diff_days

\* get_first_assignment_date with the three settings it reads as parameters
first_assignment_date(t, weekday_start, interval_days, allow_today) ==
    LET diff0 == (weekday_start - weekday(t)) % interval_days
        diff_days == IF diff0 = 0 /\ ~allow_today THEN interval_days ELSE diff0
    IN  t + diff_days

get_first_assignment_date(t) ==
    first_assignment_date(t, ASSIGNMENT_WEEKDAY_START, ASSIGNMENT_INTERVAL_DAYS,
                          ALLOW_ASSIGNMENT_TO_START_TODAY)

\* the dates list of the loop: one date per user, i = 0, 1, ..
RECURSIVE dates_from(_, _, _)
dates_from(start_date, i, n) ==
    IF i >= n THEN <<>>
    ELSE <<start_date + i * ASSIGNMENT_INTERVAL_DAYS>> \o dates_from(start_date, i + 1, n)

\* the series starting today instead of on the first assignment date
initialize_assignment_today(users_list, t) ==
    dates_from(t, 0, Len(users_list))

initialize_assignment(users_list, t) ==
    dates_from(get_first_assignment_date(t), 0, Len(users_list))

\* get_user: the value is the serialized (str) date of the dict
get_user_raises(U, D, username) == ~dict_has(data_to_dict(U, D), username)
get_user(U, D, username) == <<<<username>>, <<dict_get(data_to_dict(U, D), username)>>>>

\* the new date counted from the first date instead of the last
add_user_from_first(U, D, username, t) ==
    LET U1 == Append(U, username)
    IN  IF Len(D) > 0
        THEN LET nd == D[1] + ASSIGNMENT_INTERVAL_DAYS
             IN  IF ~date_ok(nd) THEN Done("OverflowError", U1, D, FALSE)
                 ELSE Done("", U1, Append(D, nd), TRUE)
        ELSE LET nd == get_first_assignment_date(t)
             IN  IF ~date_ok(nd) THEN Done("OverflowError", U1, D, FALSE)
                 ELSE Done("", U1, <<nd>>, TRUE)

add_user(U, D, username, t) ==
    LET U1 == Append(U, username)
    IN  IF Len(D) > 0
        THEN LET nd == D[Len(D)] + ASSIGNMENT_INTERVAL_DAYS
             IN  IF ~date_ok(nd) THEN Done("OverflowError", U1, D, FALSE)
                 ELSE Done("", U1, Append(D, nd), TRUE)
        ELSE LET nd == get_first_assignment_date(t)
             IN  IF ~date_ok(nd) THEN Done("OverflowError", U1, D, FALSE)
                 ELSE Done("", U1, <<nd>>, TRUE)

\* list.remove(x): drops the first occurrence
list_remove(U, x) ==
    LET k == CHOOSE i \in 1..Len(U) : U[i] = x /\ \A j \in 1..(i - 1) : U[j] # x
    IN  SubSeq(U, 1, k - 1) \o SubSeq(U, k + 1, Len(U))

\* the delete that drops the last date before it looks the user up
delete_user_dropping_date(U, D, username, t) ==
    IF get_user_raises(U, D, username)
    THEN Done("KeyError", U, Slice(D, 0, Len(D) - 1), FALSE)
    ELSE LET assignment_date == get_user(U, D, username)[2][1]
         IN  IF py_le_raises(assignment_date, PyDate(t)) THEN Done("TypeError", U, D, FALSE)
             ELSE LET D1 == IF py_le(assignment_date, PyDate(t))
                            THEN Slice(D, 1, Len(D))
                            ELSE Slice(D, 0, Len(D) - 1)
                  IN  IF ~(\E i \in 1..Len(U) : U[i] = username)
                      THEN Done("ValueError", U, D1, FALSE)
                      ELSE Done("", list_remove(U, username), D1, TRUE)

delete_user(U, D, username, t) ==
    IF get_user_raises(U, D, username) THEN Done("KeyError", U, D, FALSE)
    ELSE LET assignment_date == get_user(U, D, username)[2][1]
         IN  IF py_le_raises(assignment_date, PyDate(t)) THEN Done("TypeError", U, D, FALSE)
             ELSE LET D1 == IF py_le(assignment_date, PyDate(t))
                            THEN Slice(D, 1, Len(D))
                            ELSE Slice(D, 0, Len(D) - 1)
                  IN  IF ~(\E i \in 1..Len(U) : U[i] = username)
                      THEN Done("ValueError", U, D1, FALSE)
                      ELSE Done("", list_remove(U, username), D1, TRUE)

regenerate(U, D, t) ==
    LET D1 == initialize_assignment(U, t)
    IN  IF \E i \in 1..Len(D1) : ~date_ok(D1[i]) THEN Done("OverflowError", U, D, FALSE)
        ELSE Done("", U, D1, TRUE)


\* next(i for i, date in enumerate(DATES) if date >= d), counted from 1; 0 when
\* it raises StopIteration
first_from(D, d) ==
    IF \E i \in 1..Len(D) : D[i] >= d
    THEN CHOOSE i \in 1..Len(D) : D[i] >= d /\ \A j \in 1..(i - 1) : ~(D[j] >= d)
    ELSE 0

\* the search accepting a date that is today
first_after_or_on(D, d) == first_from(D, d)

\* next(i for i, date in enumerate(DATES) if date > d), counted from 1; 0 when it
\* raises StopIteration
first_after(D, d) ==
    IF \E i \in 1..Len(D) : D[i] > d
    THEN CHOOSE i \in 1..Len(D) : D[i] > d /\ \A j \in 1..(i - 1) : ~(D[j] > d)
    ELSE 0

\* [x + timedelta(days=delay_days) for x in dates]
RECURSIVE shifted(_, _)
shifted(dates, delay_days) ==
    IF dates = <<>> THEN <<>>
    ELSE <<Head(dates) + delay_days>> \o shifted(Tail(dates), delay_days)

\* every date shifted, the past ones too
delay_every(D, n, delay_days) == shifted(D, delay_days)

\* delay all: the dates from the next assignment (position n) to the end are shifted
delay_from_next(D, n, delay_days) ==
    Slice(D, 0, n - 1) \o shifted(Slice(D, n - 1, Len(D)), delay_days)

\* a delay that may land on the following assignment's date
beyond_following_gt(day_to_delay, day_after, delay_days) ==
    delay_days > day_after - day_to_delay

\* "You can only delay up until the next assignment. Not beyond"
beyond_following(day_to_delay, day_after, delay_days) ==
    delay_days >= day_after - day_to_delay

delay(U, D, delay_all, delay_days, t) ==
    LET n == first_after(D, t)
    IN  IF n = 0 THEN Done("StopIteration", U, D, FALSE)
        ELSE IF delay_all
        THEN LET D1 == delay_from_next(D, n, delay_days)
             IN  IF \E i \in 1..Len(D1) : ~date_ok(D1[i])
                 THEN Done("OverflowError", U, D, FALSE)
                 ELSE Done("", U, D1, TRUE)
        ELSE IF n = Len(D)
        THEN IF ~date_ok(D[n] + delay_days) THEN Done("OverflowError", U, D, FALSE)
             ELSE Done("", U, Slice(D, 0, n - 1) \o <<D[n] + delay_days>>, TRUE)
        ELSE IF beyond_following(D[n], D[n + 1], delay_days) THEN Done("400", U, D, FALSE)
             ELSE IF ~date_ok(D[n] + delay_days) THEN Done("OverflowError", U, D, FALSE)
             ELSE Done("", U, Slice(D, 0, n - 1) \o <<D[n] + delay_days>>
                               \o Slice(D, n, Len(D)), TRUE)

\* what lookup returns: the exception it raised ("" when it returned) and the
\* two lists
Found(exc, u, d) == [exc |-> exc, users |-> u, dates |-> d]

\* the search for index_begin passing over a date that is period_begin itself
lookup_after_begin(U, D, period_begin, period_end) ==
    LET index_begin == first_after(D, period_begin)
    IN  IF index_begin = 0 THEN Found("", <<>>, <<>>)
        ELSE IF period_end.type = "NoneType"
        THEN Found("", <<U[index_begin]>>, <<D[index_begin]>>)
        ELSE LET index_end == first_after(D, period_end.val)
             IN  IF index_end = 0 THEN Found("StopIteration", <<>>, <<>>)
                 ELSE Found("", Slice(U, index_begin - 1, index_end - 1),
                                Slice(D, index_begin - 1, index_end - 1))

lookup(U, D, period_begin, period_end) ==
    LET index_begin == first_from(D, period_begin)
    IN  IF index_begin = 0 THEN Found("", <<>>, <<>>)
        ELSE IF period_end.type = "NoneType"
        THEN Found("", <<U[index_begin]>>, <<D[index_begin]>>)
        ELSE LET index_end == first_after(D, period_end.val)
             IN  IF index_end = 0 THEN Found("StopIteration", <<>>, <<>>)
                 ELSE Found("", Slice(U, index_begin - 1, index_end - 1),
                                Slice(D, index_begin - 1, index_end - 1))

\* list.index(x): the first position of x, counted from 1; 0 when it raises ValueError
list_index(U, x) ==
    IF \E i \in 1..Len(U) : U[i] = x
    THEN CHOOSE i \in 1..Len(U) : U[i] = x /\ \A j \in 1..(i - 1) : U[j] # x
    ELSE 0

\* the exchange that writes one of the two slots only
swap_one_slot(U, D, user_1, user_2) ==
    LET user_1_index == list_index(U, user_1)
        user_2_index == list_index(U, user_2)
    IN  IF user_1_index = 0 \/ user_2_index = 0 THEN Done("ValueError", U, D, FALSE)
        ELSE Done("", [U EXCEPT ![user_2_index] = U[user_1_index]], D, TRUE)

swap(U, D, user_1, user_2) ==
    LET user_1_index == list_index(U, user_1)
        user_2_index == list_index(U, user_2)
    IN  IF user_1_index = 0 \/ user_2_index = 0 THEN Done("ValueError", U, D, FALSE)
        ELSE Done("", [U EXCEPT ![user_2_index] = U[user_1_index],
                                ![user_1_index] = U[user_2_index]], D, TRUE)

-----------------------------------------------------------------------------
(* Request handlers.  last records the request just served (the operation *)
(* and the entry point it came through) and its outcome: "ok", the HTTP    *)
(* status of an abort or early return, or the exception that escaped.      *)

Req(op, via, res) == [op |-> op, via |-> via, res |-> res]

Outcome(r) == IF r.exc = "" THEN "ok" ELSE r.exc

DelayOp(delay_all) == IF delay_all THEN "delay_all" ELSE "delay_next"

LookupOp(period_end) == IF period_end.type = "NoneType" THEN "lookup_next" ELSE "lookup_period"

\* what a handler leaves behind once the engine operation r has run
Commit(r) ==
    /\ USERS' = r.users
    /\ DATES' = r.dates
    /\ file' = IF r.saved THEN save_data(r.users, r.dates) ELSE file

\* a delay that reached save_data uses up one of the MaxDelays
Spent(r) == delays' = IF r.saved THEN delays + 1 ELSE delays

\* a handler that stops after the load
Stop ==
    /\ USERS' = Loaded[1]
    /\ DATES' = Loaded[2]
    /\ file' = file

\* PUT /users/<username>
put_user_route(username) ==
    /\ Len(Loaded[1]) < MaxUsers
    /\ UNCHANGED <<today, delays>>
    /\ IF \E i \in 1..Len(Loaded[1]) : Loaded[1][i] = username
       THEN Stop /\ last' = Req("add", "http", "204")
       ELSE LET r == add_user(Loaded[1], Loaded[2], username, today)
            IN  Commit(r) /\ last' = Req("add", "http", Outcome(r))

\* dialogflow, action 'add': add_user, then get_user for the reply
dialogflow_add(username) ==
    /\ Len(Loaded[1]) < MaxUsers
    /\ UNCHANGED <<today, delays>>
    /\ LET r == add_user(Loaded[1], Loaded[2], username, today)
       IN  /\ Commit(r)
           /\ last' = Req("add", "dialogflow",
                          IF r.exc = "" /\ get_user_raises(r.users, r.dates, username)
                          THEN "KeyError" ELSE Outcome(r))


\* GET /users/<username>
get_user_route(username) ==
    /\ UNCHANGED <<today, delays>>
    /\ Stop
    /\ last' = Req("get", "http",
                   IF ~(\E i \in 1..Len(Loaded[1]) : Loaded[1][i] = username) THEN "404"
                   ELSE IF get_user_raises(Loaded[1], Loaded[2], username) THEN "KeyError"
                   ELSE "ok")

\* dialogflow, action 'lookup-user'
dialogflow_lookup_user(username) ==
    /\ UNCHANGED <<today, delays>>
    /\ Stop
    /\ last' = Req("get", "dialogflow",
                   IF get_user_raises(Loaded[1], Loaded[2], username) THEN "KeyError"
                   ELSE "ok")

\* DELETE /users/<username>
delete_user_route(username) ==
    /\ UNCHANGED <<today, delays>>
    /\ IF ~(\E i \in 1..Len(Loaded[1]) : Loaded[1][i] = username)
       THEN Stop /\ last' = Req("delete", "http", "404")
       ELSE LET r == delete_user(Loaded[1], Loaded[2], username, today)
            IN  Commit(r) /\ last' = Req("delete", "http", Outcome(r))

\* dialogflow, action 'remove'
dialogflow_remove(username) ==
    /\ UNCHANGED <<today, delays>>
    /\ LET r == delete_user(Loaded[1], Loaded[2], username, today)
       IN  Commit(r) /\ last' = Req("delete", "dialogflow", Outcome(r))

\* POST /new
regenerate_route ==
    /\ UNCHANGED <<today, delays>>
    /\ LET r == regenerate(Loaded[1], Loaded[2], today)
       IN  Commit(r) /\ last' = Req("new", "http", Outcome(r))

\* POST /delay?all=..&days=..
delay_route(delay_all, delay_days) ==
    /\ delays < MaxDelays
    /\ UNCHANGED today
    /\ LET r == delay(Loaded[1], Loaded[2], delay_all, delay_days, today)
       IN  /\ Commit(r)
           /\ Spent(r)
           /\ last' = Req(DelayOp(delay_all), "http", Outcome(r))

\* dialogflow, actions 'delay-next' and 'delay-all': a falsy duration is a 400
dialogflow_delay(delay_all, days) ==
    /\ delays < MaxDelays
    /\ UNCHANGED today
    /\ IF days = 0
       THEN Stop /\ UNCHANGED delays
                 /\ last' = Req(DelayOp(delay_all), "dialogflow", "400")
       ELSE LET r == delay(Loaded[1], Loaded[2], delay_all, days, today)
            IN  /\ Commit(r)
                /\ Spent(r)
                /\ last' = Req(DelayOp(delay_all), "dialogflow", Outcome(r))

\* POST /swap?user=..&user=..
swap_route(user_1, user_2) ==
    /\ UNCHANGED <<today, delays>>
    /\ LET r == swap(Loaded[1], Loaded[2], user_1, user_2)
       IN  Commit(r) /\ last' = Req("swap", "http", Outcome(r))

\* dialogflow, action 'swap'
dialogflow_swap(user_1, user_2) ==
    /\ UNCHANGED <<today, delays>>
    /\ LET r == swap(Loaded[1], Loaded[2], user_1, user_2)
       IN  Commit(r) /\ last' = Req("swap", "dialogflow", Outcome(r))

\* GET /: the reply is read from the data file; the globals are not touched
show_all ==
    /\ UNCHANGED <<USERS, DATES, file, today, delays>>
    /\ last' = Req("show", "http", "ok")

\* dialogflow, action 'show-all'
dialogflow_show_all ==
    /\ UNCHANGED <<today, delays>>
    /\ Stop
    /\ last' = Req("show", "dialogflow", "ok")

\* the 'from' parameter of GET /lookup: today when it is not given
from_or_today(period_begin) ==
    IF period_begin.type = "NoneType" THEN today ELSE period_begin.val

\* GET /lookup?from=..&to=..
lookup_route(period_begin, period_end) ==
    /\ UNCHANGED <<today, delays>>
    /\ Stop
    /\ LET r == lookup(Loaded[1], Loaded[2], from_or_today(period_begin), period_end)
       IN  last' = Req(LookupOp(period_end), "http", Outcome(r))

\* dialogflow, action 'next': the reply names users[0]
dialogflow_next ==
    /\ UNCHANGED <<today, delays>>
    /\ Stop
    /\ LET r == lookup(Loaded[1], Loaded[2], today, PyNone)
       IN  last' = Req(LookupOp(PyNone), "dialogflow",
                       IF r.exc = "" /\ r.users = <<>> THEN "IndexError" ELSE Outcome(r))

\* dialogflow, action 'get-assignments-for-period'
dialogflow_get_assignments_for_period(start, end) ==
    /\ UNCHANGED <<today, delays>>
    /\ Stop
    /\ LET r == lookup(Loaded[1], Loaded[2], start, PyDate(end))
       IN  last' = Req(LookupOp(PyDate(end)), "dialogflow", Outcome(r))

\* the values of a 'from' or 'to' parameter: a date, or not given
Periods == {PyNone} \cup {PyDate(d) : d \in PeriodDays}

\* a new process: the module globals start empty, the data file stays
Restart ==
    /\ USERS # <<>>
    /\ USERS' = <<>>
    /\ DATES' = <<>>
    /\ last' = Req("restart", "", "ok")
    /\ UNCHANGED <<file, today, delays>>

\* the clock
Tick ==
    /\ today < MaxToday
    /\ today' = today + 1
    /\ last' = Req("tick", "", "ok")
    /\ UNCHANGED <<USERS, DATES, file, delays>>

Init ==
    /\ USERS = <<>>
    /\ DATES = <<>>
    /\ file = NoFile
    /\ today = FirstDay
    /\ last = Req("start", "", "ok")
    /\ delays = 0

Next ==
    \/ \E u \in Names : put_user_route(u)
    \/ \E u \in Names : dialogflow_add(u)
    \/ \E u \in Names : get_user_route(u)
    \/ \E u \in Names : dialogflow_lookup_user(u)
    \/ \E u \in Names : delete_user_route(u)
    \/ \E u \in Names : dialogflow_remove(u)
    \/ regenerate_route
    \/ \E all \in BOOLEAN, k \in DelayDays : delay_route(all, k)
    \/ \E all \in BOOLEAN, k \in DelayDays : dialogflow_delay(all, k)
    \/ \E u, v \in Names : swap_route(u, v)
    \/ \E u, v \in Names : dialogflow_swap(u, v)
    \/ Restart
    \/ Tick

Spec == Init /\ [][Next]_vars

\* The queries.  They assign no variable that a handler reads: last apart, a
\* query leaves the state as get_user_route does (the load), or untouched.
\* SpecQueries is the program with them; Spec reaches the same schedules.
NextQueries ==
    \/ Next
    \/ show_all
    \/ dialogflow_show_all
    \/ \E b \in Periods, e \in Periods : lookup_route(b, e)
    \/ dialogflow_next
    \/ \E b, e \in PeriodDays : dialogflow_get_assignments_for_period(b, e)

SpecQueries == Init /\ [][NextQueries]_vars

-----------------------------------------------------------------------------
(* get_first_assignment_date on its own, for every setting: the process     *)
(* starts on some day with some ASSIGNMENT_WEEKDAY_START,                   *)
(* ASSIGNMENT_INTERVAL_DAYS and ALLOW_ASSIGNMENT_TO_START_TODAY, kept in    *)
(* last, and calls the function once.                                       *)

Weekdays == 0..6
IntervalDays == 1..(2 * ASSIGNMENT_INTERVAL_DAYS)
StartDays == FirstDay..(FirstDay + 6)

Configured(weekday_start, interval_days, allow_today) ==
    [op |-> "configured", weekday_start |-> weekday_start,
     interval_days |-> interval_days, allow_today |-> allow_today, res |-> DateMin]

InitFirstDate ==
    /\ USERS = <<>>
    /\ DATES = <<>>
    /\ file = NoFile
    /\ delays = 0
    /\ today \in StartDays
    /\ last \in {Configured(a, n, b) : a \in Weekdays, n \in IntervalDays, b \in BOOLEAN}

call_get_first_assignment_date ==
    /\ last.op = "configured"
    /\ last' = [last EXCEPT !.op = "get_first_assignment_date",
                            !.res = first_assignment_date(today, last.weekday_start,
                                                          last.interval_days,
                                                          last.allow_today)]
    /\ UNCHANGED <<USERS, DATES, file, today, delays>>

NextFirstDate == call_get_first_assignment_date

SpecFirstDate == InitFirstDate /\ [][NextFirstDate]_vars

-----------------------------------------------------------------------------
(* Properties.  A handler's effect is stated against Loaded, the schedule   *)
(* the handler works on once its first statement has run.                   *)

Has(U, u) == \E i \in 1..Len(U) : U[i] = u

NoDuplicates(U) == \A i, j \in 1..Len(U) : U[i] = U[j] => i = j

Sorted(D) == \A i, j \in 1..Len(D) : i <= j => D[i] <= D[j]

\* C1: in every reachable state, whatever requests were served and whether they
\* succeeded or failed, USERS and DATES have the same length.
C1_SameLength == Len(USERS) = Len(DATES)

\* C2: in every reachable state USERS holds no username twice (an add of a
\* username that is already present is rejected, whichever entry point it uses).
C2_NoDuplicates == NoDuplicates(USERS)

\* C3: in every reachable state DATES is sorted in non-decreasing order, for
\* every value of 'days' that delay accepts.
C3_DatesSorted == Sorted(DATES)

\* C4 as claimed: in every reachable state, while the clock advances, the
\* schedule is empty or holds a date on or after today.
C4_AlwaysPresentOrFuture ==
    USERS = <<>> \/ \E i \in 1..Len(DATES) : DATES[i] >= today

\* C4 as amended: right after a successful regenerate of a non-empty schedule,
\* or a successful add of the first user to an empty schedule, the schedule
\* holds a date on or after today.
C4_FreshPresentOrFuture ==
    (/\ last.res = "ok"
     /\ USERS # <<>>
     /\ last.op = "new" \/ (last.op = "add" /\ Len(USERS) = 1))
    => \E i \in 1..Len(DATES) : DATES[i] >= today

\* a regenerate that replaced dates the clock had already passed
C4_Witness ==
    /\ last.op = "new"
    /\ last.res = "ok"
    /\ Len(DATES) >= 2
    /\ today > FirstDay + 1

\* an add request, through the entry point the step came through
AddRequest(u) == IF last'.via = "http" THEN put_user_route(u) ELSE dialogflow_add(u)

\* C5: an add of a username that is not present appends it as the last
\* participant and appends lastDate + ASSIGNMENT_INTERVAL_DAYS when there are
\* dates, get_first_assignment_date() when there are none (where that date
\* exists); the pairs that were there keep their positions and dates.
C5_AddAppends ==
    [][last'.op = "add" =>
       \A u \in Names :
         (~Has(Loaded[1], u) /\ AddRequest(u))
         => /\ USERS' = Append(Loaded[1], u)
            /\ LET nd == IF Loaded[2] = <<>>
                         THEN get_first_assignment_date(today)
                         ELSE Loaded[2][Len(Loaded[2])] + ASSIGNMENT_INTERVAL_DAYS
               IN  date_ok(nd) => DATES' = Append(Loaded[2], nd)]_vars

\* an add that extended a schedule of two
C5_Witness ==
    /\ last.op = "add"
    /\ last.res = "ok"
    /\ Len(USERS) = 3
    /\ NoDuplicates(USERS)
    /\ Len(DATES) = 3
    /\ DATES[3] = DATES[2] + ASSIGNMENT_INTERVAL_DAYS

\* the username a delete removes, and the dates list it should leave
Removed(U, u) == SubSeq(U, 1, list_index(U, u) - 1) \o SubSeq(U, list_index(U, u) + 1, Len(U))

\* the date the schedule assigns to u: the one at u's position
DateOf(U, D, u) == D[list_index(U, u)]

\* a delete request, through the entry point the step came through
DeleteRequest(u) ==
    IF last'.via = "http" THEN delete_user_route(u) ELSE dialogflow_remove(u)

\* C6: a delete of a username that is present succeeds and removes it, keeping
\* the order of the others; the dates lose their first element when the
\* user's date is on or before today, their last element otherwise.
C6_DeleteRemoves ==
    [][last'.op = "delete" =>
       \A u \in Names :
         (Has(Loaded[1], u) /\ Len(Loaded[1]) = Len(Loaded[2]) /\ DeleteRequest(u))
         => /\ last'.res = "ok"
            /\ USERS' = Removed(Loaded[1], u)
            /\ DATES' = IF DateOf(Loaded[1], Loaded[2], u) <= today
                        THEN Tail(Loaded[2])
                        ELSE SubSeq(Loaded[2], 1, Len(Loaded[2]) - 1)]_vars

\* the next assignment of a schedule: the least position whose date is after
\* today, counted from 1; 0 when there is none
NextIndex(D) ==
    LET upcoming == {i \in 1..Len(D) : D[i] > today}
    IN  IF upcoming = {} THEN 0 ELSE CHOOSE i \in upcoming : \A j \in upcoming : i <= j

\* a delay request, through the entry point the step came through
DelayRequest(delay_all, k) ==
    IF last'.via = "http" THEN delay_route(delay_all, k) ELSE dialogflow_delay(delay_all, k)

\* C7: delay of the next assignment alone, when it has a successor: with
\* days >= dates[next + 1] - dates[next] the request fails (400) and USERS,
\* DATES and the data file are unchanged; otherwise only dates[next] changes,
\* to dates[next] + days (where that date exists), and it stays before
\* dates[next + 1].
C7_DelayNextWindow ==
    [][last'.op = "delay_next" =>
       \A k \in DelayDays :
         LET U0 == Loaded[1]
             D0 == Loaded[2]
             n == NextIndex(D0)
         IN  (n # 0 /\ n < Len(D0) /\ DelayRequest(FALSE, k))
             => IF k >= D0[n + 1] - D0[n]
                THEN /\ last'.res = "400"
                     /\ USERS' = U0
                     /\ DATES' = D0
                     /\ file' = file
                ELSE /\ USERS' = U0
                     /\ \/ /\ last'.res = "ok"
                           /\ DATES' = [D0 EXCEPT ![n] = D0[n] + k]
                           /\ DATES'[n] < DATES'[n + 1]
                        \/ /\ last'.res # "ok"
                           /\ DATES' = D0
                           /\ file' = file
                     /\ (date_ok(D0[n] + k) /\ (k # 0 \/ last'.via = "http"))
                            => last'.res = "ok"]_vars

\* a delay of the next assignment that was refused for reaching its successor
C7_Witness ==
    /\ last.op = "delay_next"
    /\ last.via = "http"
    /\ last.res = "400"
    /\ NextIndex(DATES) # 0
    /\ NextIndex(DATES) < Len(DATES)

\* C8: delay of all upcoming assignments adds days to every date from the
\* next assignment on (where those dates exist) and leaves the earlier dates
\* and USERS unchanged.
C8_DelayAllShifts ==
    [][last'.op = "delay_all" =>
       \A k \in DelayDays :
         LET U0 == Loaded[1]
             D0 == Loaded[2]
             n == NextIndex(D0)
         IN  (n # 0 /\ DelayRequest(TRUE, k))
             => /\ USERS' = U0
                /\ \/ /\ last'.res = "ok"
                      /\ Len(DATES') = Len(D0)
                      /\ \A i \in 1..Len(D0) :
                             DATES'[i] = IF i >= n THEN D0[i] + k ELSE D0[i]
                   \/ /\ last'.res # "ok"
                      /\ DATES' = D0
                /\ ((\A i \in n..Len(D0) : date_ok(D0[i] + k)) /\ (k # 0 \/ last'.via = "http"))
                       => last'.res = "ok"]_vars

\* a delay of all upcoming assignments that moved the two later dates of a
\* schedule away from its first, already reached, date
C8_Witness ==
    /\ last.op = "delay_all"
    /\ last.res = "ok"
    /\ Len(DATES) = 3
    /\ DATES[1] <= today
    /\ DATES[2] > DATES[1] + ASSIGNMENT_INTERVAL_DAYS
    /\ DATES[3] = DATES[2] + ASSIGNMENT_INTERVAL_DAYS

\* C9: a delay, in either mode, requested when no date is after today (an
\* empty schedule, or one whose last date is today or earlier) fails, with
\* the StopIteration of the search for the next assignment, and leaves USERS,
\* DATES and the data file unchanged.
C9_DelayNothingUpcoming ==
    [][last'.op \in {"delay_next", "delay_all"} =>
       \A all \in BOOLEAN, k \in DelayDays :
         (NextIndex(Loaded[2]) = 0 /\ DelayRequest(all, k))
         => /\ last'.res # "ok"
            /\ (k # 0 \/ last'.via = "http") => last'.res = "StopIteration"
            /\ USERS' = Loaded[1]
            /\ DATES' = Loaded[2]
            /\ file' = file]_vars

\* a delay refused on a schedule whose last date is today
C9_Witness ==
    /\ last.op \in {"delay_next", "delay_all"}
    /\ last.res = "StopIteration"
    /\ DATES # <<>>
    /\ DATES[Len(DATES)] = today

\* a swap request, through the entry point the step came through
SwapRequest(a, b) ==
    IF last'.via = "http" THEN swap_route(a, b) ELSE dialogflow_swap(a, b)

\* C10: a swap of two usernames that are present exchanges their positions in
\* USERS, so that each stands at the other's former date; DATES and the
\* position of every other participant are unchanged.
C10_SwapExchanges ==
    [][last'.op = "swap" =>
       \A a, b \in Names :
         LET U0 == Loaded[1]
             D0 == Loaded[2]
             ia == list_index(U0, a)
             ib == list_index(U0, b)
         IN  (Has(U0, a) /\ Has(U0, b) /\ SwapRequest(a, b))
             => /\ last'.res = "ok"
                /\ DATES' = D0
                /\ Len(USERS') = Len(U0)
                /\ USERS'[ib] = a
                /\ USERS'[ia] = b
                /\ \A i \in 1..Len(U0) : (i # ia /\ i # ib) => USERS'[i] = U0[i]]_vars

\* a swap of the first and the last of three participants
C10_Witness ==
    /\ last.op = "swap"
    /\ last.res = "ok"
    /\ USERS = <<"c", "b", "a">>
    /\ Len(DATES) = 3

\* C11: on every reachable schedule, for any two usernames that are present,
\* swap(a, b) followed by swap(a, b) succeeds and leaves USERS and DATES, and
\* so the date of every participant, as they were before the first swap.
C11_SwapInvolution ==
    \A a, b \in Names :
      (Has(Loaded[1], a) /\ Has(Loaded[1], b))
      => LET r1 == swap(Loaded[1], Loaded[2], a, b)
             r2 == swap(r1.users, r1.dates, a, b)
         IN  /\ r1.exc = ""
             /\ r2.exc = ""
             /\ r2.users = Loaded[1]
             /\ r2.dates = Loaded[2]

\* the least position of D whose date is on or after d, counted from 1; 0 when
\* there is none
FirstOnOrAfter(D, d) ==
    LET S == {i \in 1..Len(D) : D[i] >= d}
    IN  IF S = {} THEN 0 ELSE CHOOSE i \in S : \A j \in S : i <= j

\* what a lookup from day d without period_end is to return on the loaded schedule
LookupNextReturns(d) ==
    LET i == FirstOnOrAfter(Loaded[2], d)
        r == lookup(Loaded[1], Loaded[2], d, PyNone)
    IN  /\ r.exc = ""
        /\ IF i = 0
           THEN r.users = <<>> /\ r.dates = <<>>
           ELSE r.users = <<Loaded[1][i]>> /\ r.dates = <<Loaded[2][i]>>

\* C12: a lookup without period_end returns exactly one entry, the participant
\* and the date at the least position whose date is on or after period_begin,
\* and returns two empty lists when no date is; it changes neither USERS nor
\* DATES nor the data file.
C12_LookupNext ==
    [][last'.op = "lookup_next" =>
       /\ USERS' = Loaded[1]
       /\ DATES' = Loaded[2]
       /\ file' = file
       /\ \A b \in Periods :
            (last'.via = "http" /\ lookup_route(b, PyNone))
            => last'.res = "ok" /\ LookupNextReturns(from_or_today(b))
       /\ (last'.via = "dialogflow" /\ dialogflow_next)
            => LookupNextReturns(today)]_vars

\* a lookup of the next assignment on a schedule whose first date has passed
C12_Witness ==
    /\ last.op = "lookup_next"
    /\ last.res = "ok"
    /\ Len(DATES) >= 2
    /\ DATES[1] < today
    /\ DATES[2] >= today

\* the position where a period ending on day e stops: the least position of D
\* whose date is after e, or the position past the end when there is none
FirstAfterOrEnd(D, e) ==
    LET S == {i \in 1..Len(D) : D[i] > e}
    IN  IF S = {} THEN Len(D) + 1 ELSE CHOOSE i \in S : \A j \in S : i <= j

\* a lookup with period_end, through the entry point the step came through
PeriodRequest(b, e) ==
    IF last'.via = "http" THEN lookup_route(b, PyDate(e))
    ELSE b.type = "date" /\ dialogflow_get_assignments_for_period(b.val, e)

\* C13: a lookup with period_end, when some date is on or after period_begin,
\* returns the entries from the first position whose date is on or after
\* period_begin up to, and without, the first position whose date is after
\* period_end, or up to the end of the lists when no date is after period_end.
C13_LookupPeriod ==
    [][last'.op = "lookup_period" =>
       \A b \in Periods, e \in PeriodDays :
         LET U0 == Loaded[1]
             D0 == Loaded[2]
             d == from_or_today(b)
             index_begin == FirstOnOrAfter(D0, d)
             index_end == FirstAfterOrEnd(D0, e)
             r == lookup(U0, D0, d, PyDate(e))
         IN  (index_begin # 0 /\ PeriodRequest(b, e))
             => /\ last'.res = "ok"
                /\ r.exc = ""
                /\ r.users = SubSeq(U0, index_begin, index_end - 1)
                /\ r.dates = SubSeq(D0, index_begin, index_end - 1)]_vars

\* the requests that change the schedule
Mutating == {"add", "delete", "new", "delay_next", "delay_all", "swap"}

\* C14: after every add, delete, regenerate, delay or swap that returned
\* successfully, reading the data file yields exactly USERS and DATES: the same
\* elements in the same order.
C14_SnapshotIsMemory ==
    (last.op \in Mutating /\ last.res = "ok") => read_data(file) = <<USERS, DATES>>

\* a get request, through the entry point the step came through
GetRequest(u) ==
    IF last'.via = "http" THEN get_user_route(u) ELSE dialogflow_lookup_user(u)

\* the step ended in an error and left the loaded schedule and the data file
\* as they were
FailedUnchanged ==
    /\ last'.res # "ok"
    /\ USERS' = Loaded[1]
    /\ DATES' = Loaded[2]
    /\ file' = file

\* C15: a get or a delete of a username that is not present, and a swap in
\* which one of the two usernames is not present, fails with an error and
\* leaves USERS, DATES and the data file unchanged, through the HTTP routes
\* and through dialogflow.
C15_NotFoundUnchanged ==
    [][last'.op \in {"get", "delete", "swap"} =>
       \/ FailedUnchanged
       \/ /\ last'.op = "get"
             => \A u \in Names : ~(~Has(Loaded[1], u) /\ GetRequest(u))
          /\ last'.op = "delete"
             => \A u \in Names : ~(~Has(Loaded[1], u) /\ DeleteRequest(u))
          /\ last'.op = "swap"
             => \A a, b \in Names :
                  ~((~Has(Loaded[1], a) \/ ~Has(Loaded[1], b)) /\ SwapRequest(a, b))]_vars

\* a swap through dialogflow refused on a schedule of two, one of the names
\* not being among them
C15_Witness ==
    /\ last.op = "swap"
    /\ last.via = "dialogflow"
    /\ last.res = "ValueError"
    /\ Len(USERS) = 2
    /\ NoDuplicates(USERS)
    /\ read_data(file) = <<USERS, DATES>>

\* C16: regenerate keeps USERS as it is and replaces DATES by the series
\* get_first_assignment_date() + i * ASSIGNMENT_INTERVAL_DAYS, i = 0, 1, ..,
\* one date per participant (where those dates exist); so every date is on or
\* after today and consecutive dates are ASSIGNMENT_INTERVAL_DAYS apart.
C16_RegenerateSeries ==
    [][(last'.op = "new" /\ regenerate_route) =>
       LET U0 == Loaded[1]
           start == get_first_assignment_date(today)
           n == Len(U0)
       IN  /\ USERS' = U0
           /\ \/ /\ last'.res = "ok"
                 /\ Len(DATES') = n
                 /\ \A i \in 1..n :
                      /\ DATES'[i] = start + (i - 1) * ASSIGNMENT_INTERVAL_DAYS
                      /\ DATES'[i] >= today
                 /\ \A i \in 1..(n - 1) :
                      DATES'[i + 1] - DATES'[i] = ASSIGNMENT_INTERVAL_DAYS
              \/ /\ last'.res # "ok"
                 /\ DATES' = Loaded[2]
                 /\ file' = file
           /\ date_ok(start + (n - 1) * ASSIGNMENT_INTERVAL_DAYS) => last'.res = "ok"]_vars

\* a regenerate of a schedule of three whose order a swap had changed and
\* whose dates a delay had moved
C16_Witness ==
    /\ last.op = "new"
    /\ last.res = "ok"
    /\ Len(USERS) = 3
    /\ NoDuplicates(USERS)
    /\ USERS[1] # "a"
    /\ delays > 0
    /\ DATES[3] = DATES[1] + 2 * ASSIGNMENT_INTERVAL_DAYS

\* C17: a delete of a username that is present and whose date is after today
\* removes it, and every other participant then has the date it had before.
C17_DeleteFutureKeepsDates ==
    [][last'.op = "delete" =>
       \A u \in Names :
         LET U0 == Loaded[1]
             D0 == Loaded[2]
         IN  (/\ Has(U0, u)
              /\ NoDuplicates(U0)
              /\ Len(U0) = Len(D0)
              /\ DateOf(U0, D0, u) > today
              /\ DeleteRequest(u))
             => /\ last'.res = "ok"
                /\ USERS' = Removed(U0, u)
                /\ \A v \in Names :
                     (v # u /\ Has(U0, v))
                     => DateOf(USERS', DATES', v) = DateOf(U0, D0, v)]_vars

\* the first day on or after day t, or after it when today is not allowed,
\* whose weekday is weekday_start
NextOnWeekday(t, weekday_start, allow_today) ==
    LET from == IF allow_today THEN t ELSE t + 1
    IN  CHOOSE d \in from..(from + 6) : weekday(d) = weekday_start

\* C18: for every today, every ASSIGNMENT_WEEKDAY_START in 0..6 and every
\* positive ASSIGNMENT_INTERVAL_DAYS, get_first_assignment_date returns the
\* next date on or after today whose weekday is ASSIGNMENT_WEEKDAY_START, and
\* a date after today when ALLOW_ASSIGNMENT_TO_START_TODAY is false.
C18_FirstDateOnAnchor ==
    last.op = "get_first_assignment_date"
    => /\ last.res = NextOnWeekday(today, last.weekday_start, last.allow_today)
       /\ ~last.allow_today => last.res > today

\* a list without its last element
ButLast(s) == SubSeq(s, 1, Len(s) - 1)

\* C19: when an add of a username that was not present has just succeeded, the
\* username is the last of USERS and the lists before the add are USERS and
\* DATES without their last elements; a delete of that username as the very
\* next request, the clock not having moved, succeeds and leaves exactly those
\* lists.
C19_AddThenDelete ==
    [][(last.op = "add" /\ last.res = "ok" /\ last'.op = "delete" /\ USERS # <<>>) =>
       LET u == USERS[Len(USERS)]
       IN  (~Has(ButLast(USERS), u) /\ Len(USERS) = Len(DATES) /\ DeleteRequest(u))
           => /\ last'.res = "ok"
              /\ USERS' = ButLast(USERS)
              /\ DATES' = ButLast(DATES)]_vars

\* C20: a delay that succeeds, in either mode and for every value of 'days'
\* that is accepted, moves no date to an earlier day, and leaves every date
\* that is on or before today unchanged.
C20_DelayNeverEarlier ==
    [][(last'.op \in {"delay_next", "delay_all"} /\ last'.res = "ok") =>
       /\ Len(DATES') = Len(Loaded[2])
       /\ \A i \in 1..Len(Loaded[2]) :
            /\ DATES'[i] >= Loaded[2][i]
            /\ Loaded[2][i] <= today => DATES'[i] = Loaded[2][i]]_vars

====
